---------------------------- MODULE Spec2Model ----------------------------
(***************************************************************************)
(* Model of scripts/build-channels.js: the three source fetchers, the     *)
(* local loaders, mergeAll, buildUrlHistory and the driver main().        *)
(*                                                                         *)
(* JavaScript values are represented as follows.                          *)
(*   - an object used as a mapping is a function whose DOMAIN is the set  *)
(*     of its keys ({} is the function with the empty domain);            *)
(*   - an array is a sequence;                                             *)
(*   - a url is a pair <<host, id>>; the empty / missing url is <<>>;     *)
(*   - a channel entry is a record; a field the object does not have is   *)
(*     not in the record's DOMAIN.                                         *)
(* Of a channel entry the fields name, url, source, type, group and       *)
(* category are kept; logo, desc and id, which no decision of the script   *)
(* reads, are left out.  A name is a pair <<text, number>>.                *)
(***************************************************************************)
EXTENDS Integers, Sequences, FiniteSets, TLC

VARIABLES
    DRY_RUN,          \* process.argv.includes('--dry-run')
    YOUTUBE_KEY,      \* TRUE iff process.env.YOUTUBE_API_KEY is non-empty
    TMDB_KEY,         \* TRUE iff process.env.TMDB_API_KEY is non-empty
    files,            \* DATA_DIR: file name -> content
    writes,           \* the fs.writeFileSync calls made so far, in order
    printed,          \* TRUE once the dry-run sample has been printed
    mainPc,           \* where main() stands
    iptvPc,           \* where fetchIptvOrg() stands
    iptvByGroup,      \* its result
    ytPc,             \* where fetchYouTube() stands
    ytIdx,            \* index in Object.entries(CATEGORIES) of its loop
    ytByCategory,     \* its byCategory
    ytLog,            \* its requests and delays, in order
    tmdbPc,           \* where fetchTMDB() stands
    tmdbIdx,          \* index in Object.entries(CATEGORIES) of its loop
    tmdbByCategory,   \* its byCategory
    tmdbSeen,         \* its seen set of genre ids
    tmdbLog,          \* its requests and delays, in order
    custom,           \* main's custom
    user,             \* main's user
    channels,         \* main's channels (the Output Document)
    urlHistory,       \* main's urlHistory
    prevHistory,      \* the urlHistory of the run before
    histRuns,         \* runs of the history builder so far
    deviations        \* API responses so far that were not the nominal one

vars == <<DRY_RUN, YOUTUBE_KEY, TMDB_KEY, files, writes, printed, mainPc,
          iptvPc, iptvByGroup, ytPc, ytIdx, ytByCategory, ytLog,
          tmdbPc, tmdbIdx, tmdbByCategory, tmdbSeen, tmdbLog,
          custom, user, channels, urlHistory, prevHistory, histRuns,
          deviations>>

---------------------------------------------------------------------------
(* Values *)

\* The value of a variable that holds nothing yet.
None == [kind |-> "none"]

\* {}
EmptyMap == <<>>

\* The empty or missing url: what !e.url accepts.
NoUrl == <<>>

Url(host, id) == <<host, id>>

Min(a, b) == IF a < b THEN a ELSE b

\* Array.prototype.slice(from, to) with 0 <= from <= to.
Slice(s, from, to) == SubSeq(s, from + 1, Min(to, Len(s)))

\* { ...s, ...over }
Spread(s, over) ==
    [f \in (DOMAIN s) \cup (DOMAIN over) |->
        IF f \in DOMAIN over THEN over[f] ELSE s[f]]

\* m[k] || []
Lookup(m, k) == IF k \in DOMAIN m THEN m[k] ELSE <<>>

\* arr.map(f) for the tagging maps of mergeAll.
MapSpread(arr, over) == [i \in 1..Len(arr) |-> Spread(arr[i], over)]

---------------------------------------------------------------------------
(* Category definitions *)

CategoryOrder ==
    << "news", "technology", "science", "history", "sports", "music",
       "entertainment", "nature", "cooking", "travel", "politics",
       "business", "health", "kids", "animation", "general" >>

CATEGORIES ==
    [ news          |-> [iptv_groups |-> <<"News", "General">>,           tmdb_genre_id |-> 10763],
      technology    |-> [iptv_groups |-> <<"Science / Technology">>,      tmdb_genre_id |-> 10759],
      science       |-> [iptv_groups |-> <<"Science / Technology">>,      tmdb_genre_id |-> 99],
      history       |-> [iptv_groups |-> <<"Education">>,                 tmdb_genre_id |-> 99],
      sports        |-> [iptv_groups |-> <<"Sports">>,                    tmdb_genre_id |-> 10759],
      music         |-> [iptv_groups |-> <<"Music">>,                     tmdb_genre_id |-> 10749],
      entertainment |-> [iptv_groups |-> <<"Entertainment", "Lifestyle">>, tmdb_genre_id |-> 10751],
      nature        |-> [iptv_groups |-> <<"Science / Technology">>,      tmdb_genre_id |-> 99],
      cooking       |-> [iptv_groups |-> <<"Lifestyle">>,                 tmdb_genre_id |-> 10751],
      travel        |-> [iptv_groups |-> <<"Travel">>,                    tmdb_genre_id |-> 10749],
      politics      |-> [iptv_groups |-> <<"News", "General">>,           tmdb_genre_id |-> 10763],
      business      |-> [iptv_groups |-> <<"Business">>,                  tmdb_genre_id |-> 10763],
      health        |-> [iptv_groups |-> <<"Lifestyle">>,                 tmdb_genre_id |-> 10751],
      kids          |-> [iptv_groups |-> <<"Kids">>,                      tmdb_genre_id |-> 10762],
      animation     |-> [iptv_groups |-> <<"Animation">>,                 tmdb_genre_id |-> 16],
      general       |-> [iptv_groups |-> <<"General">>,                   tmdb_genre_id |-> 99] ]

\* Object.entries(CATEGORIES).length
NumCategories == Len(CategoryOrder)

CategoryNames == {CategoryOrder[i] : i \in 1..NumCategories}

---------------------------------------------------------------------------
(* Merge all sources into the final channels.json *)

\* streams.slice(0, 15)
GroupTake == 15

\* The iptv-org part of entries: for each group of the category, in the
\* descriptor's order, up to GroupTake streams tagged with the category.
RECURSIVE IptvEntries(_, _, _, _)
IptvEntries(iptv, cat, groups, g) ==
    IF g > Len(groups) THEN <<>>
    ELSE MapSpread(Slice(Lookup(iptv, groups[g]), 0, GroupTake), [category |-> cat])
         \o IptvEntries(iptv, cat, groups, g + 1)

CandidatesCustomFirst(iptv, yt, tmdb, cust, usr, cat) ==
    MapSpread(Lookup(cust, cat), [category |-> cat, source |-> "custom"])
    \o IptvEntries(iptv, cat, CATEGORIES[cat].iptv_groups, 1)
    \o MapSpread(Lookup(yt, cat), [category |-> cat])
    \o MapSpread(Lookup(tmdb, cat), [category |-> cat])
    \o MapSpread(Lookup(usr, cat), [category |-> cat, source |-> "user"])

CandidatesUserFirst(iptv, yt, tmdb, cust, usr, cat) ==
    IptvEntries(iptv, cat, CATEGORIES[cat].iptv_groups, 1)
    \o MapSpread(Lookup(yt, cat), [category |-> cat])
    \o MapSpread(Lookup(tmdb, cat), [category |-> cat])
    \o MapSpread(Lookup(usr, cat), [category |-> cat, source |-> "user"])
    \o MapSpread(Lookup(cust, cat), [category |-> cat, source |-> "custom"])

\* entries, after the five pushes of one iteration of mergeAll's loop.
Candidates(iptv, yt, tmdb, cust, usr, cat) ==
    IptvEntries(iptv, cat, CATEGORIES[cat].iptv_groups, 1)
    \o MapSpread(Lookup(yt, cat), [category |-> cat])
    \o MapSpread(Lookup(tmdb, cat), [category |-> cat])
    \o MapSpread(Lookup(cust, cat), [category |-> cat, source |-> "custom"])
    \o MapSpread(Lookup(usr, cat), [category |-> cat, source |-> "user"])

\* !e.url
UrlMissing(e) == "url" \notin DOMAIN e \/ e.url = NoUrl

RECURSIVE DedupKeepUrlless(_, _, _)
DedupKeepUrlless(entries, i, seen) ==
    IF i > Len(entries) THEN <<>>
    ELSE IF ~UrlMissing(entries[i]) /\ entries[i].url \in seen
         THEN DedupKeepUrlless(entries, i + 1, seen)
         ELSE <<entries[i]>>
              \o DedupKeepUrlless(entries, i + 1,
                     IF UrlMissing(entries[i]) THEN seen
                     ELSE seen \cup {entries[i].url})

\* entries.filter(e => { if (!e.url || seen.has(e.url)) return false;
\*                       seen.add(e.url); return true; }), from index i on.
RECURSIVE Dedup(_, _, _)
Dedup(entries, i, seen) ==
    IF i > Len(entries) THEN <<>>
    ELSE IF UrlMissing(entries[i]) \/ entries[i].url \in seen
         THEN Dedup(entries, i + 1, seen)
         ELSE <<entries[i]>> \o Dedup(entries, i + 1, seen \cup {entries[i].url})

mergeAll(iptv, yt, tmdb, cust, usr) ==
    [ updated    |-> "now",
      version    |-> "1.0",
      categories |-> [cat \in CategoryNames |->
                        Dedup(Candidates(iptv, yt, tmdb, cust, usr, cat), 1, {})] ]

---------------------------------------------------------------------------
(* Build url_history.json *)

NumDefaults == 10

\* The ten default URLs, in their fixed order.
defaults == [i \in 1..NumDefaults |-> Url("en.wikipedia.org", i)]

\* merged.slice(0, 50)
HistoryCap == 50

\* Array.isArray(v)
IsArray(v) == v.kind = "array"

\* [...new Set(arr)]: the distinct values in order of first occurrence.
RECURSIVE SetOrder(_, _, _)
SetOrder(arr, i, seen) ==
    IF i > Len(arr) THEN <<>>
    ELSE IF arr[i] \in seen THEN SetOrder(arr, i + 1, seen)
         ELSE <<arr[i]>> \o SetOrder(arr, i + 1, seen \cup {arr[i]})

buildUrlHistoryExistingFirst(existing) ==
    Slice(SetOrder((IF IsArray(existing) THEN existing.items ELSE <<>>) \o defaults, 1, {}),
          0, HistoryCap)

buildUrlHistoryNoSet(existing) ==
    Slice(defaults \o (IF IsArray(existing) THEN existing.items ELSE <<>>),
          0, HistoryCap)

buildUrlHistory(existing) ==
    LET existingUrls == IF IsArray(existing) THEN existing.items ELSE <<>>
        merged == SetOrder(defaults \o existingUrls, 1, {})
    IN  Slice(merged, 0, HistoryCap)

---------------------------------------------------------------------------
(* Local JSON files *)

Absent == [kind |-> "absent"]            \* !fs.existsSync(p)
Garbage == [kind |-> "garbage"]          \* JSON.parse throws
JsonFile(v) == [kind |-> "json", value |-> v]
Obj(m) == [kind |-> "object", map |-> m]
Arr(s) == [kind |-> "array", items |-> s]
Undefined == [kind |-> "undefined"]

loadLocal(file) == IF file.kind = "json" THEN file.value ELSE Obj(EmptyMap)

\* v used as a mapping from property name to value: v[k] is undefined for
\* every k that is not an own property.
Props(v) == IF v.kind = "object" THEN v.map ELSE EmptyMap

\* Array.isArray(existingHistory) ? existingHistory : existingHistory.urls
HistoryArg(existingHistory) ==
    IF IsArray(existingHistory) THEN existingHistory
    ELSE IF "urls" \in DOMAIN Props(existingHistory)
         THEN Props(existingHistory)["urls"]
         ELSE Undefined

---------------------------------------------------------------------------
(* Source 1: iptv-org M3U.  A line of the playlist is one of               *)
(*   [t |-> "extinf", group |-> g, name |-> n]   (group "" : no group-title) *)
(*   [t |-> "http", url |-> u]                                              *)
(*   [t |-> "other"]                                                        *)

\* if (byGroup[g].length < 60)
GroupCap == 60

PushCapped(byGroup, g, e) ==
    IF g \notin DOMAIN byGroup THEN byGroup @@ (g :> <<e>>)
    ELSE IF Len(byGroup[g]) < GroupCap
         THEN [byGroup EXCEPT ![g] = Append(@, e)]
         ELSE byGroup

\* The for loop over lines, from line i on; current = None stands for null.
RECURSIVE ParseM3U(_, _, _, _)
ParseM3U(lines, i, current, byGroup) ==
    IF i > Len(lines) THEN byGroup
    ELSE LET line == lines[i] IN
         IF line.t = "extinf"
         THEN ParseM3U(lines, i + 1,
                  [name   |-> line.name,
                   group  |-> IF line.group = "" THEN "General" ELSE line.group,
                   source |-> "iptv-org",
                   type   |-> "live"],
                  byGroup)
         ELSE IF line.t = "http" /\ current # None
         THEN ParseM3U(lines, i + 1, None,
                  PushCapped(byGroup, current.group,
                             Spread(current, [url |-> line.url])))
         ELSE ParseM3U(lines, i + 1, current, byGroup)

\* fetchIptvOrg after its await; raw is [kind |-> "null"] when get() returned
\* null, and [kind |-> "text", lines |-> ...] otherwise.
IptvResult(raw) ==
    IF raw.kind = "null" THEN EmptyMap ELSE ParseM3U(raw.lines, 1, None, EmptyMap)

---------------------------------------------------------------------------
(* Source 2: YouTube Data API v3.  The body get() returns is               *)
(*   [kind |-> "null"]                          request failed              *)
(*   [kind |-> "object"]                        no items member             *)
(*   [kind |-> "object", items |-> Obj(..)]     items is not an array       *)
(*   [kind |-> "object", items |-> Arr(s)]      s a sequence of items       *)
(* and an item is [kind |-> "null"] or a record with an optional id         *)
(* (videoId 0: none) and an optional snippet.                               *)

\* maxResults: 8
MaxResults == 8

\* !data || !data.items
YtNoData(data) == data.kind = "null" \/ "items" \notin DOMAIN data

\* i.id && i.id.videoId
YtHasVideoId(i) == "id" \in DOMAIN i /\ i.id.videoId # 0

\* Whether data.items.filter(...).map(...) throws a TypeError: items is not
\* an array, an item is null, or a kept item has no snippet.
YtThrows(data) ==
    \/ ~IsArray(data.items)
    \/ \E k \in 1..Len(data.items.items) :
          \/ data.items.items[k].kind = "null"
          \/ /\ YtHasVideoId(data.items.items[k])
             /\ "snippet" \notin DOMAIN data.items.items[k]

YtEntry(i) ==
    [name   |-> i.snippet.title,
     url    |-> Url("www.youtube.com/watch?v=", i.id.videoId),
     source |-> "youtube",
     type   |-> "vod"]

RECURSIVE YtFilterMap(_, _)
YtFilterMap(items, k) ==
    IF k > Len(items) THEN <<>>
    ELSE IF YtHasVideoId(items[k])
         THEN <<YtEntry(items[k])>> \o YtFilterMap(items, k + 1)
         ELSE YtFilterMap(items, k + 1)

\* data.items.filter(i => i.id && i.id.videoId).map(i => ({...}))
YtEntries(data) == YtFilterMap(data.items.items, 1)

---------------------------------------------------------------------------
(* Source 3: TMDB.  The body is as for YouTube with results for items; a   *)
(* result is [kind |-> "null"] or a record with optional id, name and      *)
(* original_name.                                                           *)

\* data.results.slice(0, 8)
TmdbTake == 8

\* !data || !data.results
TmdbNoData(data) == data.kind = "null" \/ "results" \notin DOMAIN data

\* Whether data.results.slice(0, 8).map(...) throws a TypeError: results is
\* not an array, or one of the first eight results is null.
TmdbThrows(data) ==
    \/ ~IsArray(data.results)
    \/ \E k \in 1..Min(TmdbTake, Len(data.results.items)) :
          data.results.items[k].kind = "null"

\* r.name || r.original_name   (<<>>: undefined)
TmdbName(r) ==
    IF "name" \in DOMAIN r THEN r.name
    ELSE IF "original_name" \in DOMAIN r THEN r.original_name
    ELSE <<>>

TmdbEntry(r) ==
    [name   |-> TmdbName(r),
     url    |-> Url("www.themoviedb.org/tv/", IF "id" \in DOMAIN r THEN r.id ELSE 0),
     source |-> "tmdb",
     type   |-> "info"]

\* data.results.slice(0, 8).map(r => ({...}))
TmdbEntries(data) ==
    LET cut == Slice(data.results.items, 0, TmdbTake)
    IN  [k \in 1..Len(cut) |-> TmdbEntry(cut[k])]

---------------------------------------------------------------------------
(* What the network can answer *)

\* At most this many responses of one run differ from the nominal one.
MaxDeviations == 1

NullBody == [kind |-> "null"]
NullItem == [kind |-> "null"]

YtItem(v) ==
    [kind |-> "object", id |-> [videoId |-> v], snippet |-> [title |-> <<"title", v>>]]
YtItemNoVideoId == [kind |-> "object", id |-> [videoId |-> 0], snippet |-> [title |-> <<"title", 0>>]]
YtItemNoSnippet == [kind |-> "object", id |-> [videoId |-> 1]]
YtBody(items) == [kind |-> "object", items |-> Arr(items)]

YtNominal == YtBody(<<YtItem(1)>>)

YtDeviant ==
    { NullBody,
      [kind |-> "object"],
      [kind |-> "object", items |-> Obj(EmptyMap)],
      YtBody(<<YtItemNoSnippet>>),
      YtBody(<<NullItem>>),
      YtBody(<<YtItemNoVideoId>> \o [v \in 1..(MaxResults + 1) |-> YtItem(v)]) }

TmdbItem(k) == [kind |-> "object", id |-> k, name |-> <<"show", k>>]
TmdbItemBare == [kind |-> "object"]
TmdbBody(results) == [kind |-> "object", results |-> Arr(results)]

TmdbNominal == TmdbBody(<<TmdbItem(1)>>)

TmdbDeviant ==
    { NullBody,
      [kind |-> "object"],
      [kind |-> "object", results |-> Obj(EmptyMap)],
      TmdbBody(<<NullItem>>),
      TmdbBody(<<TmdbItemBare>> \o [k \in 1..TmdbTake |-> TmdbItem(k)]) }

SamplePlaylist ==
    << [t |-> "other"],
       [t |-> "extinf", group |-> "News", name |-> <<"chan", 1>>],
       [t |-> "http", url |-> Url("stream", 1)],
       [t |-> "http", url |-> Url("stream", 2)],
       [t |-> "extinf", group |-> "", name |-> <<"chan", 3>>],
       [t |-> "other"],
       [t |-> "http", url |-> Url("stream", 1)],
       [t |-> "extinf", group |-> "Music", name |-> <<"chan", 4>>],
       [t |-> "extinf", group |-> "Kids", name |-> <<"chan", 5>>],
       [t |-> "http", url |-> Url("stream", 5)] >>

IptvNominal == [kind |-> "text", lines |-> SamplePlaylist]

---------------------------------------------------------------------------
(* The fetchers, each run from one await to the next *)

\* The events of a fetcher's log: a request issued for a category, a
\* response taken (bad: the request failed or the body was malformed), the
\* delay elapsed.
Req(cat) == cat
Resp(bad) == IF bad THEN "resp-bad" ELSE "resp-ok"
Delay == "delay"

\* The for loop of fetchYouTube going to its next iteration: the next get()
\* is issued, or the loop is over and byCategory is returned.
YtAdvance(log) ==
    IF ytIdx < NumCategories
    THEN /\ ytIdx' = ytIdx + 1
         /\ ytPc' = "inflight"
         /\ ytLog' = Append(log, Req(CategoryOrder[ytIdx + 1]))
    ELSE /\ ytIdx' = ytIdx
         /\ ytPc' = "done"
         /\ ytLog' = log

\* get() of fetchYouTube settles with data.
YtResponse ==
    /\ mainPc = "fetching"
    /\ ytPc = "inflight"
    /\ \E data \in {YtNominal} \cup (IF deviations < MaxDeviations THEN YtDeviant ELSE {}) :
         LET cat == CategoryOrder[ytIdx]
             nodata == YtNoData(data)
             throws == ~nodata /\ YtThrows(data)
             log == Append(ytLog, Resp(nodata \/ throws))
         IN  /\ deviations' = IF data = YtNominal THEN deviations ELSE deviations + 1
             /\ IF nodata
                THEN /\ YtAdvance(log)
                     /\ UNCHANGED <<ytByCategory, mainPc>>
                ELSE IF throws
                THEN /\ ytPc' = "thrown"
                     /\ mainPc' = "fatal"
                     /\ ytLog' = log
                     /\ UNCHANGED <<ytByCategory, ytIdx>>
                ELSE /\ ytByCategory' = ytByCategory @@ (cat :> YtEntries(data))
                     /\ ytPc' = "delay"
                     /\ ytLog' = log
                     /\ UNCHANGED <<ytIdx, mainPc>>
    /\ UNCHANGED <<DRY_RUN, YOUTUBE_KEY, TMDB_KEY, files, writes, printed,
                   iptvPc, iptvByGroup, tmdbPc, tmdbIdx, tmdbByCategory,
                   tmdbSeen, tmdbLog, custom, user, channels, urlHistory,
                   prevHistory, histRuns>>

\* The 250 ms timer of fetchYouTube fires.
YtDelayDone ==
    /\ mainPc = "fetching"
    /\ ytPc = "delay"
    /\ YtAdvance(Append(ytLog, Delay))
    /\ UNCHANGED <<DRY_RUN, YOUTUBE_KEY, TMDB_KEY, files, writes, printed, mainPc,
                   iptvPc, iptvByGroup, ytByCategory, tmdbPc, tmdbIdx,
                   tmdbByCategory, tmdbSeen, tmdbLog, custom, user, channels,
                   urlHistory, prevHistory, histRuns, deviations>>

\* The first index after from whose genre id is not in seen; 0 if none.
RECURSIVE TmdbNextUnseen(_, _)
TmdbNextUnseen(from, seen) ==
    IF from >= NumCategories THEN 0
    ELSE IF CATEGORIES[CategoryOrder[from + 1]].tmdb_genre_id \in seen
         THEN TmdbNextUnseen(from + 1, seen)
         ELSE from + 1

TmdbMarkSeenWhenStored(seen, genre, at) ==
    IF at = "stored" THEN seen \cup {genre} ELSE seen

\* seen.add(def.tmdb_genre_id) stands before the request (at = "request"),
\* and nothing is added once the entries are stored (at = "stored").
TmdbMarkSeen(seen, genre, at) ==
    IF at = "request" THEN seen \cup {genre} ELSE seen

\* The for loop of fetchTMDB going on after index from: categories whose
\* genre id was seen are skipped, and the next get() is issued, or the loop
\* is over and byCategory is returned.
TmdbAdvance(from, seen, log) ==
    LET next == TmdbNextUnseen(from, seen) IN
    IF next # 0
    THEN /\ tmdbIdx' = next
         /\ tmdbPc' = "inflight"
         /\ tmdbSeen' = TmdbMarkSeen(seen, CATEGORIES[CategoryOrder[next]].tmdb_genre_id, "request")
         /\ tmdbLog' = Append(log, Req(CategoryOrder[next]))
    ELSE /\ tmdbIdx' = from
         /\ tmdbPc' = "done"
         /\ tmdbSeen' = seen
         /\ tmdbLog' = log

\* get() of fetchTMDB settles with data.
TmdbResponse ==
    /\ mainPc = "fetching"
    /\ tmdbPc = "inflight"
    /\ \E data \in {TmdbNominal} \cup (IF deviations < MaxDeviations THEN TmdbDeviant ELSE {}) :
         LET cat == CategoryOrder[tmdbIdx]
             nodata == TmdbNoData(data)
             throws == ~nodata /\ TmdbThrows(data)
             log == Append(tmdbLog, Resp(nodata \/ throws))
         IN  /\ deviations' = IF data = TmdbNominal THEN deviations ELSE deviations + 1
             /\ IF nodata
                THEN /\ TmdbAdvance(tmdbIdx, tmdbSeen, log)
                     /\ UNCHANGED <<tmdbByCategory, mainPc>>
                ELSE IF throws
                THEN /\ tmdbPc' = "thrown"
                     /\ mainPc' = "fatal"
                     /\ tmdbLog' = log
                     /\ UNCHANGED <<tmdbByCategory, tmdbIdx, tmdbSeen>>
                ELSE /\ tmdbByCategory' = tmdbByCategory @@ (cat :> TmdbEntries(data))
                     /\ tmdbSeen' = TmdbMarkSeen(tmdbSeen, CATEGORIES[cat].tmdb_genre_id, "stored")
                     /\ tmdbPc' = "delay"
                     /\ tmdbLog' = log
                     /\ UNCHANGED <<tmdbIdx, mainPc>>
    /\ UNCHANGED <<DRY_RUN, YOUTUBE_KEY, TMDB_KEY, files, writes, printed,
                   iptvPc, iptvByGroup, ytPc, ytIdx, ytByCategory, ytLog,
                   custom, user, channels, urlHistory, prevHistory, histRuns>>

\* The 150 ms timer of fetchTMDB fires.
TmdbDelayDone ==
    /\ mainPc = "fetching"
    /\ tmdbPc = "delay"
    /\ TmdbAdvance(tmdbIdx, tmdbSeen, Append(tmdbLog, Delay))
    /\ UNCHANGED <<DRY_RUN, YOUTUBE_KEY, TMDB_KEY, files, writes, printed, mainPc,
                   iptvPc, iptvByGroup, ytPc, ytIdx, ytByCategory, ytLog,
                   tmdbByCategory, custom, user, channels, urlHistory,
                   prevHistory, histRuns, deviations>>

\* get() of fetchIptvOrg settles: with null, or with the playlist's text.
IptvResponse ==
    /\ mainPc = "fetching"
    /\ iptvPc = "inflight"
    /\ \E raw \in {IptvNominal} \cup (IF deviations < MaxDeviations THEN {NullBody} ELSE {}) :
         /\ iptvByGroup' = IptvResult(raw)
         /\ deviations' = IF raw = IptvNominal THEN deviations ELSE deviations + 1
    /\ iptvPc' = "done"
    /\ UNCHANGED <<DRY_RUN, YOUTUBE_KEY, TMDB_KEY, files, writes, printed, mainPc,
                   ytPc, ytIdx, ytByCategory, ytLog, tmdbPc, tmdbIdx,
                   tmdbByCategory, tmdbSeen, tmdbLog, custom, user, channels,
                   urlHistory, prevHistory, histRuns>>

---------------------------------------------------------------------------
(* Main *)

\* main() up to its await: fetchIptvOrg(), fetchYouTube() and fetchTMDB()
\* are called in turn and each runs to its first await (or returns {} at
\* once, having no API key).
MainStart ==
    /\ mainPc = "start"
    /\ mainPc' = "fetching"
    /\ iptvPc' = "inflight"
    /\ IF YOUTUBE_KEY
       THEN /\ ytPc' = "inflight"
            /\ ytIdx' = 1
            /\ ytLog' = <<Req(CategoryOrder[1])>>
       ELSE /\ ytPc' = "done"
            /\ UNCHANGED <<ytIdx, ytLog>>
    /\ IF TMDB_KEY
       THEN TmdbAdvance(0, {}, <<>>)
       ELSE /\ tmdbPc' = "done"
            /\ UNCHANGED <<tmdbIdx, tmdbSeen, tmdbLog>>
    /\ UNCHANGED <<DRY_RUN, YOUTUBE_KEY, TMDB_KEY, files, writes, printed,
                   iptvByGroup, ytByCategory, tmdbByCategory, custom, user,
                   channels, urlHistory, prevHistory, histRuns, deviations>>

AnyFetched == iptvPc = "done" \/ ytPc = "done" \/ tmdbPc = "done"

\* await Promise.all([...]) resumes main.
AllFetched == iptvPc = "done" /\ ytPc = "done" /\ tmdbPc = "done"

\* main() from the join to the totals: the local files are loaded, the
\* sources merged and the history built.
MainMerge ==
    /\ mainPc = "fetching"
    /\ AllFetched
    /\ custom' = Props(loadLocal(files.custom))
    /\ user' = Props(loadLocal(files.user))
    /\ channels' = mergeAll(iptvByGroup, ytByCategory, tmdbByCategory, custom', user')
    /\ urlHistory' = buildUrlHistory(HistoryArg(loadLocal(files.history)))
    /\ mainPc' = "terminal"
    /\ UNCHANGED <<DRY_RUN, YOUTUBE_KEY, TMDB_KEY, files, writes, printed,
                   iptvPc, iptvByGroup, ytPc, ytIdx, ytByCategory, ytLog,
                   tmdbPc, tmdbIdx, tmdbByCategory, tmdbSeen, tmdbLog,
                   prevHistory, histRuns, deviations>>

\* if (!DRY_RUN)
Live == ~DRY_RUN

\* fs.writeFileSync(path.join(DATA_DIR, 'channels.json'), ...)
MainWriteChannels ==
    /\ mainPc = "terminal"
    /\ Live
    /\ files' = [files EXCEPT !.channels = JsonFile(channels)]
    /\ writes' = Append(writes, "channels.json")
    /\ mainPc' = "written-channels"
    /\ UNCHANGED <<DRY_RUN, YOUTUBE_KEY, TMDB_KEY, printed,
                   iptvPc, iptvByGroup, ytPc, ytIdx, ytByCategory, ytLog,
                   tmdbPc, tmdbIdx, tmdbByCategory, tmdbSeen, tmdbLog,
                   custom, user, channels, urlHistory, prevHistory, histRuns,
                   deviations>>

\* fs.writeFileSync(path.join(DATA_DIR, 'url_history.json'), ...)
MainWriteHistory ==
    /\ mainPc = "written-channels"
    /\ files' = [files EXCEPT !.history = JsonFile(Arr(urlHistory))]
    /\ writes' = Append(writes, "url_history.json")
    /\ mainPc' = "done"
    /\ UNCHANGED <<DRY_RUN, YOUTUBE_KEY, TMDB_KEY, printed,
                   iptvPc, iptvByGroup, ytPc, ytIdx, ytByCategory, ytLog,
                   tmdbPc, tmdbIdx, tmdbByCategory, tmdbSeen, tmdbLog,
                   custom, user, channels, urlHistory, prevHistory, histRuns,
                   deviations>>

\* The else branch: the sample channels.categories.news?.slice(0, 2) is printed.
MainReport ==
    /\ mainPc = "terminal"
    /\ ~Live
    /\ printed' = Arr(Slice(channels.categories["news"], 0, 2))
    /\ mainPc' = "done"
    /\ UNCHANGED <<DRY_RUN, YOUTUBE_KEY, TMDB_KEY, files, writes,
                   iptvPc, iptvByGroup, ytPc, ytIdx, ytByCategory, ytLog,
                   tmdbPc, tmdbIdx, tmdbByCategory, tmdbSeen, tmdbLog,
                   custom, user, channels, urlHistory, prevHistory, histRuns,
                   deviations>>

---------------------------------------------------------------------------
(* One run of the script *)

\* The state every specification starts its processes in.
Idle ==
    /\ writes = <<>>
    /\ printed = None
    /\ iptvPc = "idle"
    /\ ytPc = "idle"
    /\ ytIdx = 0
    /\ ytLog = <<>>
    /\ tmdbPc = "idle"
    /\ tmdbIdx = 0
    /\ tmdbSeen = {}
    /\ tmdbLog = <<>>
    /\ urlHistory = None
    /\ prevHistory = None
    /\ histRuns = 0
    /\ deviations = 0

CustomSample ==
    Obj("news" :> << [name |-> <<"mine", 1>>, url |-> Url("stream", 1), type |-> "live"],
                     [name |-> <<"mine", 2>>, url |-> Url("www.youtube.com/watch?v=", 1),
                      source |-> "youtube"],
                     [name |-> <<"mine", 3>>, url |-> Url("example.com", 3)],
                     [name |-> <<"mine", 4>>] >>
        @@ "oddities" :> << [name |-> <<"mine", 5>>, url |-> Url("example.com", 5)] >>)

UserSample ==
    Obj("news" :> << [name |-> <<"theirs", 1>>, url |-> Url("example.com", 3)],
                     [name |-> <<"theirs", 2>>, url |-> Url("example.com", 4)] >>
        @@ "kids" :> << [name |-> <<"theirs", 3>>, url |-> NoUrl] >>)

DataDir ==
    [custom |-> JsonFile(CustomSample), user |-> JsonFile(UserSample),
     history |-> Absent, channels |-> Garbage]

Init ==
    /\ DRY_RUN \in BOOLEAN
    /\ YOUTUBE_KEY \in BOOLEAN
    /\ TMDB_KEY \in BOOLEAN
    /\ files = DataDir
    /\ mainPc = "start"
    /\ iptvByGroup = EmptyMap
    /\ ytByCategory = EmptyMap
    /\ tmdbByCategory = EmptyMap
    /\ custom = EmptyMap
    /\ user = EmptyMap
    /\ channels = None
    /\ Idle

Next ==
    \/ MainStart
    \/ IptvResponse
    \/ YtResponse
    \/ YtDelayDone
    \/ TmdbResponse
    \/ TmdbDelayDone
    \/ MainMerge
    \/ MainWriteChannels
    \/ MainWriteHistory
    \/ MainReport

Spec == Init /\ [][Next]_vars

---------------------------------------------------------------------------
(* mergeAll on its own: the arguments are drawn from bounded sets *)

\* The entries of the video, metadata, curated and user arguments together.
MaxEntries == 2

\* The lengths of a playlist group: none, a few, more than mergeAll takes.
PlaylistLens == {0, 2, GroupTake + 1}

\* A playlist group of n streams whose urls are u(first), u(first + 1), ...
PlaylistRun(group, first, n) ==
    [i \in 1..n |->
        [name |-> <<group, i>>, url |-> Url("u", first + i - 1),
         source |-> "iptv-org", type |-> "live"]]

Slots == <<"yt", "tmdb", "custom", "user">>

\* What the url of an argument's entry is: missing, or a url that a playlist
\* group holds too (its first, and the one past the first GroupTake).
UrlChoices == {"none", "first", "past"}

ChoiceUrl(choice) ==
    IF choice = "first" THEN Url("u", 1)
    ELSE IF choice = "past" THEN Url("u", GroupTake + 1)
    ELSE NoUrl

\* The i-th entry of a slot. A video or metadata entry is what the fetchers
\* build; a curated entry names a source of its own; a user entry has
\* neither source nor type; a curated or user entry without url has no url
\* member at all.
SlotEntry(slot, i, choice) ==
    IF slot = "yt"
    THEN [name |-> <<slot, i>>, url |-> ChoiceUrl(choice), source |-> "youtube", type |-> "vod"]
    ELSE IF slot = "tmdb"
    THEN [name |-> <<slot, i>>, url |-> ChoiceUrl(choice), source |-> "tmdb", type |-> "info"]
    ELSE IF slot = "custom"
    THEN IF choice = "none"
         THEN [name |-> <<slot, i>>, source |-> "iptv-org", type |-> "live"]
         ELSE [name |-> <<slot, i>>, url |-> ChoiceUrl(choice), source |-> "iptv-org", type |-> "live"]
    ELSE IF choice = "none"
         THEN [name |-> <<slot, i>>]
         ELSE [name |-> <<slot, i>>, url |-> ChoiceUrl(choice)]

\* An assignment of at most MaxEntries entries to the four slots: the k-th
\* entry goes to slot plan[k][1] with url choice plan[k][2].
Plans ==
    UNION { { plan \in [1..n -> (1..Len(Slots)) \X UrlChoices] :
                \A k \in 1..(n - 1) : plan[k][1] <= plan[k + 1][1] } :
            n \in 0..MaxEntries }

RECURSIVE SlotList(_, _, _, _)
SlotList(plan, slot, k, i) ==
    IF k > Len(plan) THEN <<>>
    ELSE IF Slots[plan[k][1]] = slot
         THEN <<SlotEntry(slot, i, plan[k][2])>> \o SlotList(plan, slot, k + 1, i + 1)
         ELSE SlotList(plan, slot, k + 1, i)

\* { [key]: list }, or {} when the list is empty and absent is asked for.
KeyedList(key, list, absentIfEmpty) ==
    IF list = <<>> /\ absentIfEmpty THEN EmptyMap ELSE (key :> list)

InitMerge ==
    /\ \E fc \in CategoryNames, len1 \in PlaylistLens, len2 \in PlaylistLens, plan \in Plans :
         LET groups == CATEGORIES[fc].iptv_groups IN
         /\ iptvByGroup =
               KeyedList(groups[1], PlaylistRun(groups[1], 1, len1), TRUE)
               @@ (IF Len(groups) > 1
                   THEN KeyedList(groups[2], PlaylistRun(groups[2], 2, len2), TRUE)
                   ELSE EmptyMap)
         /\ ytByCategory = KeyedList(fc, SlotList(plan, "yt", 1, 1), FALSE)
         /\ tmdbByCategory = KeyedList(fc, SlotList(plan, "tmdb", 1, 1), TRUE)
         /\ custom = KeyedList(fc, SlotList(plan, "custom", 1, 1), TRUE)
                     @@ ("oddities" :> <<SlotEntry("custom", 9, "first")>>)
         /\ user = KeyedList(fc, SlotList(plan, "user", 1, 1), FALSE)
    /\ DRY_RUN = TRUE
    /\ YOUTUBE_KEY = FALSE
    /\ TMDB_KEY = FALSE
    /\ files = DataDir
    /\ mainPc = "merge"
    /\ channels = None
    /\ Idle

\* const channels = mergeAll(iptvByGroup, ytByCategory, tmdbByCategory, custom, user)
ApplyMergeAll ==
    /\ mainPc = "merge"
    /\ channels = None
    /\ channels' = mergeAll(iptvByGroup, ytByCategory, tmdbByCategory, custom, user)
    /\ UNCHANGED <<DRY_RUN, YOUTUBE_KEY, TMDB_KEY, files, writes, printed, mainPc,
                   iptvPc, iptvByGroup, ytPc, ytIdx, ytByCategory, ytLog,
                   tmdbPc, tmdbIdx, tmdbByCategory, tmdbSeen, tmdbLog,
                   custom, user, urlHistory, prevHistory, histRuns, deviations>>

NextMerge == ApplyMergeAll

SpecMerge == InitMerge /\ [][NextMerge]_vars

---------------------------------------------------------------------------
(* buildUrlHistory on its own, run after run on the file it wrote *)

\* The longest persisted list.
MaxHistLen == 45

\* The runs of the script in a row.
MaxRuns == 2

\* The urls a persisted list draws from: the defaults and more others than
\* the cap leaves room for.
HistUniverse == NumDefaults + HistoryCap + 2

HistUrl(k) == IF k < NumDefaults THEN defaults[k + 1] ELSE Url("example.org", k)

\* A persisted list: len urls from start on, step apart (step 0 repeats one).
HistList(start, len, step) ==
    [i \in 1..len |-> HistUrl((start + (i - 1) * step) % HistUniverse)]

HistLists ==
    { HistList(start, len, step) :
        start \in {0, NumDefaults - 1, NumDefaults}, len \in 0..MaxHistLen, step \in {0, 1, 3} }

HistoryFiles ==
    { Absent, Garbage, JsonFile(Obj(EmptyMap)), JsonFile(Obj("urls" :> Obj(EmptyMap))) }
    \cup { JsonFile(Arr(l)) : l \in HistLists }
    \cup { JsonFile(Obj("urls" :> Arr(l))) : l \in HistLists }

InitHist ==
    /\ files \in { [DataDir EXCEPT !.history = f] : f \in HistoryFiles }
    /\ DRY_RUN \in BOOLEAN
    /\ YOUTUBE_KEY = FALSE
    /\ TMDB_KEY = FALSE
    /\ mainPc = "history"
    /\ iptvByGroup = EmptyMap
    /\ ytByCategory = EmptyMap
    /\ tmdbByCategory = EmptyMap
    /\ custom = EmptyMap
    /\ user = EmptyMap
    /\ channels = None
    /\ Idle

\* One run's handling of url_history.json: loaded, rebuilt and, in a live
\* run, written back.
HistoryRun ==
    /\ mainPc = "history"
    /\ histRuns < MaxRuns
    /\ histRuns' = histRuns + 1
    /\ prevHistory' = urlHistory
    /\ urlHistory' = buildUrlHistory(HistoryArg(loadLocal(files.history)))
    /\ files' = IF Live THEN [files EXCEPT !.history = JsonFile(Arr(urlHistory'))] ELSE files
    /\ writes' = IF Live THEN Append(writes, "url_history.json") ELSE writes
    /\ UNCHANGED <<DRY_RUN, YOUTUBE_KEY, TMDB_KEY, printed, mainPc,
                   iptvPc, iptvByGroup, ytPc, ytIdx, ytByCategory, ytLog,
                   tmdbPc, tmdbIdx, tmdbByCategory, tmdbSeen, tmdbLog,
                   custom, user, channels, deviations>>

NextHist == HistoryRun

SpecHist == InitHist /\ [][NextHist]_vars

---------------------------------------------------------------------------
(* The properties.  What the specification words say is stated here by    *)
(* index, without the loops of the code.                                   *)

HasUrl(e) == "url" \in DOMAIN e /\ e.url # <<>>

\* The indices of list whose entry has a url that no earlier entry has.
FirstOccurrences(list) ==
    { i \in 1..Len(list) :
        /\ HasUrl(list[i])
        /\ \A j \in 1..(i - 1) : HasUrl(list[j]) => list[j].url # list[i].url }

\* list restricted to the indices idx, in the order of list.
Restrict(list, idx) ==
    [k \in 1..Cardinality(idx) |->
        list[CHOOSE i \in idx : Cardinality({j \in idx : j < i}) = k - 1]]

FirstSeen(list) == Restrict(list, FirstOccurrences(list))

\* list with every entry filed under cat and, for src # "", marked src.
Filed(list, cat, src) ==
    [i \in 1..Len(list) |->
        [f \in (DOMAIN list[i]) \cup {"category"} \cup (IF src = "" THEN {} ELSE {"source"}) |->
            IF f = "category" THEN cat
            ELSE IF f = "source" /\ src # "" THEN src
            ELSE list[i][f]]]

FirstN(list, n) == [i \in 1..(IF Len(list) < n THEN Len(list) ELSE n) |-> list[i]]

Of(m, k) == IF k \in DOMAIN m THEN m[k] ELSE <<>>

RECURSIVE PlaylistPart(_, _)
PlaylistPart(cat, g) ==
    IF g > Len(CATEGORIES[cat].iptv_groups) THEN <<>>
    ELSE Filed(FirstN(Of(iptvByGroup, CATEGORIES[cat].iptv_groups[g]), 15), cat, "")
         \o PlaylistPart(cat, g + 1)

\* playlist -> video -> metadata -> curated -> user
PrecedenceOrder(cat) ==
    PlaylistPart(cat, 1)
    \o Filed(Of(ytByCategory, cat), cat, "")
    \o Filed(Of(tmdbByCategory, cat), cat, "")
    \o Filed(Of(custom, cat), cat, "custom")
    \o Filed(Of(user, cat), cat, "user")

Merged == channels # None

(* C1: every entry of every category list of the Output Document has a    *)
(* non-empty url, and the urls of one category's list are pairwise         *)
(* distinct, whatever the five arguments of mergeAll hold.                 *)
C1_UrlsNonEmptyAndDistinct ==
    Merged =>
        \A cat \in DOMAIN channels.categories :
            LET list == channels.categories[cat] IN
            \A i \in 1..Len(list) :
                /\ "url" \in DOMAIN list[i]
                /\ list[i].url # <<>>
                /\ \A j \in 1..Len(list) : i # j => list[i].url # list[j].url

\* C1's case: a merged category whose candidates held an entry without url
\* and a url twice, and that kept several entries.
C1_Witness ==
    /\ Merged
    /\ \E cat \in CategoryNames :
         LET cand == PrecedenceOrder(cat) IN
         /\ \E i \in 1..Len(cand) : ~HasUrl(cand[i])
         /\ \E i, j \in 1..Len(cand) :
               i < j /\ HasUrl(cand[i]) /\ HasUrl(cand[j]) /\ cand[i].url = cand[j].url
         /\ Len(channels.categories[cat]) >= 2

(* C2: mergeAll is first-seen-wins under the precedence playlist -> video  *)
(* -> metadata -> curated -> user: each category's list is its candidate   *)
(* list in that order with the url-less entries and every later occurrence *)
(* of a url removed, and in no other order.                                *)
C2_FirstSeenWinsInPrecedenceOrder ==
    Merged =>
        \A cat \in CategoryNames :
            channels.categories[cat] = FirstSeen(PrecedenceOrder(cat))

\* C2's case: a url held by a playlist group and by the curated list of the
\* same category, and a user entry that survived the merge.
C2_Witness ==
    /\ Merged
    /\ \E cat \in CategoryNames :
         LET cand == PrecedenceOrder(cat) IN
         /\ \E i, j \in 1..Len(cand) :
               /\ i < j /\ HasUrl(cand[i]) /\ HasUrl(cand[j])
               /\ cand[i].url = cand[j].url
               /\ cand[i].source = "iptv-org" /\ cand[j].source = "custom"
         /\ \E k \in 1..Len(channels.categories[cat]) :
               channels.categories[cat][k].source = "user"

\* Every list of a fetched mapping is empty.
NothingFetched(m) == \A k \in DOMAIN m : m[k] = <<>>

(* C3: when the three network sources yield nothing, the Output Document   *)
(* holds the 16 category keys and no other, and each category's list is    *)
(* its curated entries followed by its user entries, deduplicated by url   *)
(* (the empty list when there is no local entry for it).                   *)
C3_LocalOnlyWhenNothingFetched ==
    (Merged /\ NothingFetched(iptvByGroup) /\ NothingFetched(ytByCategory)
            /\ NothingFetched(tmdbByCategory)) =>
        /\ DOMAIN channels.categories = CategoryNames
        /\ Cardinality(DOMAIN channels.categories) = 16
        /\ \A cat \in CategoryNames :
              channels.categories[cat] =
                  FirstSeen(Filed(Of(custom, cat), cat, "custom")
                            \o Filed(Of(user, cat), cat, "user"))

\* C3's case: nothing fetched, a category with a curated and a user entry of
\* different urls, another category left empty, and a curated key that is no
\* category.
C3_Witness ==
    /\ Merged
    /\ NothingFetched(iptvByGroup) /\ NothingFetched(ytByCategory)
    /\ NothingFetched(tmdbByCategory)
    /\ \E cat \in CategoryNames :
         /\ Len(channels.categories[cat]) = 2
         /\ channels.categories[cat][1].source = "custom"
         /\ channels.categories[cat][2].source = "user"
    /\ \E cat \in CategoryNames : channels.categories[cat] = <<>>
    /\ DOMAIN custom \ CategoryNames # {}

(* C4: whatever was persisted (nothing, a list of any length with any      *)
(* duplicates, something that is no list), the history list has at most 50 *)
(* entries, no duplicate, and the ten default urls as its first ten        *)
(* entries in their fixed order.                                           *)
C4_HistoryCappedDistinctDefaultsFirst ==
    urlHistory # None =>
        /\ Len(urlHistory) <= 50
        /\ \A i, j \in 1..Len(urlHistory) : i # j => urlHistory[i] # urlHistory[j]
        /\ Len(urlHistory) >= 10
        /\ \A i \in 1..10 : urlHistory[i] = defaults[i]

\* C4's case: a dry run (the file is still the one loaded) over a persisted
\* list that holds a default url, a duplicate, and more urls than the cap
\* leaves room for.
C4_Witness ==
    /\ urlHistory # None
    /\ DRY_RUN
    /\ Len(urlHistory) = 50
    /\ LET loaded == loadLocal(files.history) IN
       /\ loaded.kind = "array"
       /\ \E i \in 1..Len(loaded.items) : loaded.items[i] = defaults[10]
       /\ Cardinality({loaded.items[i] : i \in 1..Len(loaded.items)}) > 41

(* C5: buildUrlHistory is idempotent across runs: a live run that loads    *)
(* the history file the run before wrote builds the same list again and    *)
(* leaves the file as it was.                                              *)
C5_HistoryFixedPointAfterFirstRun ==
    (histRuns >= 2 /\ ~DRY_RUN) =>
        /\ urlHistory = prevHistory
        /\ files.history = JsonFile(Arr(prevHistory))

\* C5's case: a second live run whose list is cut at the cap.
C5_Witness ==
    /\ histRuns >= 2
    /\ ~DRY_RUN
    /\ urlHistory # None
    /\ Len(urlHistory) = 50

---------------------------------------------------------------------------
(* Properties of a run *)

IsRequest(ev) == ev \in CategoryNames

\* The categories a fetcher requested, in order.
Requests(log) == SelectSeq(log, IsRequest)

\* The requests of log that no response has answered yet.
InFlight(log) ==
    Cardinality({i \in 1..Len(log) : IsRequest(log[i])})
    - Cardinality({i \in 1..Len(log) : log[i] \in {"resp-ok", "resp-bad"}})

\* Every category whose request of log got a failed or malformed response
\* has no key in by.
BadResponsesSkipped(log, by) ==
    \A i \in 1..(Len(log) - 1) :
        (IsRequest(log[i]) /\ log[i + 1] = "resp-bad") => log[i] \notin DOMAIN by

\* A delay stands between any two successive requests of log.
DelayBetweenRequests(log) ==
    \A i, j \in 1..Len(log) :
        (i < j /\ IsRequest(log[i]) /\ IsRequest(log[j])) =>
            \E k \in (i + 1)..(j - 1) : log[k] = "delay"

(* C6: in the Video Search Fetcher and the Metadata Fetcher a failed or    *)
(* malformed response for a category is skipped: the category gets no      *)
(* entries from that source, no fetcher throws, and the run is never       *)
(* terminated by it.                                                       *)
C6_BadResponseSkippedNeverFatal ==
    /\ BadResponsesSkipped(ytLog, ytByCategory)
    /\ BadResponsesSkipped(tmdbLog, tmdbByCategory)
    /\ ytPc # "thrown"
    /\ tmdbPc # "thrown"
    /\ mainPc # "fatal"

(* C7: the output files are written only at the end of a live run: no      *)
(* write happens before the three fetchers have completed and the merge    *)
(* has finished, and a dry run writes nothing and prints a sample after    *)
(* the same fetching and merging.                                          *)
C7_WritesOnlyAtEndOfLiveRun ==
    /\ (writes # <<>> \/ files # DataDir) =>
          /\ ~DRY_RUN
          /\ iptvPc = "done" /\ ytPc = "done" /\ tmdbPc = "done"
          /\ channels # None /\ urlHistory # None
          /\ mainPc \in {"written-channels", "done"}
    /\ \A i \in 1..Len(writes) :
          writes[i] = (IF i = 1 THEN "channels.json" ELSE "url_history.json")
    /\ Len(writes) <= 2
    /\ printed # None =>
          /\ DRY_RUN
          /\ iptvPc = "done" /\ ytPc = "done" /\ tmdbPc = "done"
          /\ channels # None
    /\ (mainPc = "done" /\ DRY_RUN) => printed # None
    /\ (mainPc = "done" /\ ~DRY_RUN) =>
          /\ writes = <<"channels.json", "url_history.json">>
          /\ files.channels = JsonFile(channels)
          /\ files.history = JsonFile(Arr(urlHistory))

\* C7's case: a live run with both API keys that has written both files.
C7_Witness ==
    /\ mainPc = "done"
    /\ ~DRY_RUN
    /\ YOUTUBE_KEY /\ TMDB_KEY
    /\ writes = <<"channels.json", "url_history.json">>
    /\ Len(ytLog) > NumCategories
    /\ tmdbLog # <<>>

(* C8: for every category and every response of the API, also one with     *)
(* more items than requested, the Video Search Fetcher stores at most 8    *)
(* entries for the category and the Metadata Fetcher stores at most 8.     *)
C8_AtMostEightPerCategory ==
    /\ \A cat \in DOMAIN ytByCategory : Len(ytByCategory[cat]) <= 8
    /\ \A cat \in DOMAIN tmdbByCategory : Len(tmdbByCategory[cat]) <= 8

\* Each category's place in the declaration order of the Category Table.
Place == [cat \in CategoryNames |-> CHOOSE i \in 1..NumCategories : CategoryOrder[i] = cat]

\* The categories that are the first declared with their genre id.
FirstOfGenre ==
    { cat \in CategoryNames :
        \A other \in CategoryNames :
            CATEGORIES[other].tmdb_genre_id = CATEGORIES[cat].tmdb_genre_id
                => Place[cat] <= Place[other] }

(* C9: the Metadata Fetcher issues at most one request per genre id: only  *)
(* the first category declared for a genre id is requested, in declaration *)
(* order, and only such a category has a key in the result, also when its  *)
(* request failed or returned nothing.                                     *)
C9_OneRequestPerGenre ==
    LET reqs == Requests(tmdbLog) IN
    /\ \A i, j \in 1..Len(reqs) :
          i < j => /\ CATEGORIES[reqs[i]].tmdb_genre_id # CATEGORIES[reqs[j]].tmdb_genre_id
                   /\ Place[reqs[i]] < Place[reqs[j]]
    /\ \A i \in 1..Len(reqs) : reqs[i] \in FirstOfGenre
    /\ \A cat \in DOMAIN tmdbByCategory :
          /\ cat \in FirstOfGenre
          /\ \E i \in 1..Len(reqs) : reqs[i] = cat

\* C9's case: the fetcher is through the table after the request of
\* technology, the first category of genre 10759, failed; sports, of the
\* same genre, got no request and has no key.
C9_Witness ==
    /\ tmdbPc = "done"
    /\ \E i \in 1..(Len(tmdbLog) - 1) :
          tmdbLog[i] = "technology" /\ tmdbLog[i + 1] = "resp-bad"
    /\ "technology" \notin DOMAIN tmdbByCategory
    /\ "sports" \notin DOMAIN tmdbByCategory
    /\ "news" \in DOMAIN tmdbByCategory
    /\ Len(Requests(tmdbLog)) = 7

(* C10: a fetcher issues its requests one category at a time: it never has *)
(* two requests in flight, and the fixed delay stands between any two of   *)
(* its successive requests, whatever the outcome of the earlier one.       *)
C10_OneAtATimeWithDelay ==
    /\ InFlight(ytLog) \in {0, 1}
    /\ InFlight(tmdbLog) \in {0, 1}
    /\ DelayBetweenRequests(ytLog)
    /\ DelayBetweenRequests(tmdbLog)

=============================================================================
